---- MODULE Spec2Model ----
(***************************************************************************)
(* Record engine of the Verifactu module: the record store with its hash   *)
(* chain, the configuration singleton with its mode lock, and the paths    *)
(* that build and persist records (signal handlers in apps.py, the         *)
(* HashService builder, VerifactuRecord.save).                             *)
(*                                                                         *)
(* Hashes are modelled as the tuple of the fields that the canonical       *)
(* string is made of (an injective stand-in for SHA-256); the empty hash   *)
(* '' is the empty tuple.  Optional (nullable) fields are sequences of     *)
(* length 0 or 1.  Time is the calendar year.                              *)
(***************************************************************************)
EXTENDS Integers, Sequences, FiniteSets, TLC

\* ---------------------------------------------------------------- bounds
MaxRecords == 2
MaxYear == 2
MaxStoreRecords == 2
MaxFailures == 4

\* ---------------------------------------------------------------- inputs
Procs == {"w1", "w2"}
Nifs == {"A", "B"}
Numbers == {"F-1"}
Dates == {"d1"}
SaleIds == {"1"}
\* the user whose request a worker serves
UserOf(p) == IF p = "w1" THEN <<"u1">> ELSE <<"u2">>
Years == 1..MaxYear

NoHash == << >>
Null == << >>
Some(x) == <<x>>

VARIABLES
    records,    \* rows of VerifactuRecord
    config,     \* the VerifactuConfig singleton row (pk = 1)
    queue,      \* rows of ContingencyQueue
    now,        \* the clock: the current year
    aeat,       \* the authority: hash of the last record it holds (NoHash if none)
    recovery,   \* recovery_points.json: per issuer, the stored recovery hash if any
    manager,    \* the ContingencyManager singleton
    pc,         \* per worker: position inside a build
    loc         \* per worker: the record instance being built / saved

vars == <<records, config, queue, now, aeat, recovery, manager, pc, loc>>

\* ------------------------------------------------------------ canonicalizer
\* models.py VerifactuRecord.calculate_hash / HashService.calculate_alta_hash
calculate_alta_hash(nif, number, date, itype, tax, total, prev, ts) ==
    <<nif, number, date, itype, tax, total, prev, ts>>

calculate_anulacion_hash(nif, number, date, prev, ts) ==
    <<nif, number, date, prev, ts>>

calculate_hash(r) ==
    IF r.record_type = "alta"
    THEN calculate_alta_hash(r.issuer_nif, r.invoice_number, r.invoice_date,
                             r.invoice_type, r.tax_amount, r.total_amount,
                             r.previous_hash, r.generation_timestamp)
    ELSE calculate_anulacion_hash(r.issuer_nif, r.invoice_number, r.invoice_date,
                                  r.previous_hash, r.generation_timestamp)

validate_hash(r) == r.record_hash = calculate_hash(r)

\* ------------------------------------------------------------ record store
RecordKey(r) == <<r.issuer_nif, r.invoice_number, r.invoice_date, r.record_type>>

\* the table without its unique constraint
NoUniqueViolation(r) == FALSE

\* Meta.constraints: unique_verifactu_record
UniqueViolation(r) == \E s \in records : RecordKey(s) = RecordKey(r)

\* objects.order_by('-sequence_number').first(): any row of maximal sequence_number
LastOf(S) == {r \in S : \A s \in S : s.sequence_number <= r.sequence_number}

\* .first(): a row, or None on an empty result
First(S) == IF S = {} THEN {Null} ELSE {Some(r) : r \in LastOf(S)}

OfIssuer(nif) == {r \in records : r.issuer_nif = nif}

\* a VerifactuRecord instance before save()
NewRecord(rtype, seq, nif, number, date, itype, amounts, prev, first, hash, ts, user) ==
    [record_type |-> rtype, sequence_number |-> seq, issuer_nif |-> nif,
     invoice_number |-> number, invoice_date |-> date, invoice_type |-> itype,
     tax_amount |-> amounts[1], total_amount |-> amounts[2],
     previous_hash |-> prev, is_first_record |-> first,
     record_hash |-> hash, generation_timestamp |-> ts,
     status |-> "pending", aeat_csv |-> Null, transmission_timestamp |-> Null,
     created_by |-> user]

NoRecord == [record_type |-> "none"]

\* what a worker is left with when the INSERT raised IntegrityError
Failed == [record_type |-> "IntegrityError"]

\* a view that never consults the lock
can_change_mode_always(c, year) == TRUE

\* the comparison get_mode_lock_info makes: an unset year counts as another year
can_change_mode_unset_open(c, year) ==
    IF ~c.mode_locked THEN TRUE
    ELSE c.fiscal_year_locked # Some(year)

\* a lock that records neither who locked nor for which year
lock_mode_anonymous(c, user_id, year) ==
    IF c.mode_locked THEN c
    ELSE [c EXCEPT !.mode_locked = TRUE,
                   !.mode_locked_at = Some(year),
                   !.module_activated = TRUE,
                   !.first_record_date = Some(year)]

\* ------------------------------------------------------------ configuration
\* VerifactuConfig.can_change_mode
can_change_mode(c, year) ==
    IF ~c.mode_locked THEN TRUE
    ELSE IF c.fiscal_year_locked # Null /\ c.fiscal_year_locked[1] # 0
            /\ c.fiscal_year_locked[1] # year THEN TRUE
    ELSE FALSE

\* VerifactuConfig.lock_mode: the fields written by save(update_fields=...)
lock_mode(c, user_id, year) ==
    IF c.mode_locked THEN c
    ELSE [c EXCEPT !.mode_locked = TRUE,
                   !.mode_locked_at = Some(year),
                   !.mode_locked_by = user_id,
                   !.fiscal_year_locked = Some(year),
                   !.module_activated = TRUE,
                   !.first_record_date = Some(year)]

\* models.py VerifactuConfig.can_deactivate_module; exists is VerifactuRecord.objects.exists()
can_deactivate_module(c, exists) ==
    IF c.module_activated THEN FALSE
    ELSE IF exists THEN FALSE
    ELSE TRUE

\* recovery_points.json before any recovery: no entry for any issuer
NoRecoveryPoints == [nif \in Nifs |-> Null]

\* ContingencyManager.__init__
NewManager ==
    [mode |-> "normal", failure_type |-> Null, failure_count |-> 0,
     last_successful_submission |-> Null, last_health_check |-> Null]

\* get_or_create(pk=1): the field defaults
DefaultConfig ==
    [enabled |-> FALSE, mode |-> "verifactu",
     software_nif |-> "", has_certificate |-> FALSE,
     mode_locked |-> FALSE, mode_locked_at |-> Null, mode_locked_by |-> Null,
     fiscal_year_locked |-> Null, module_activated |-> FALSE,
     first_record_date |-> Null]

\* ------------------------------------------------------------ build paths
Amounts == {<<21, 121>>}

Busy == {p \in Procs : pc[p] \in {"hs_seq", "create"}}

\* room for one more record within the bound
Room == Cardinality(records) + Cardinality(Busy) < MaxRecords

StoreRoom == Cardinality(records) + Cardinality(Busy) < MaxStoreRecords

\* apps.py _get_invoice_type
get_invoice_type(kind) ==
    IF kind = "simplified" THEN "F2"
    ELSE IF kind = "rectifying" THEN "R1"
    ELSE "F1"

\* apps.py _create_verifactu_record_for_invoice, up to the objects.create call
on_invoice_created(p, nif, number, date, kind, user) ==
    /\ pc[p] = "idle"
    /\ Room
    /\ IF ~config.enabled
       THEN UNCHANGED <<pc, loc>>
       ELSE \E last \in First(records) :
              LET previous_hash == IF last # Null THEN last[1].record_hash ELSE NoHash
                  sequence_number == IF last # Null THEN last[1].sequence_number + 1 ELSE 1
                  is_first == sequence_number = 1
              IN /\ loc' = [loc EXCEPT ![p] =
                        NewRecord("alta", sequence_number, nif, number, date,
                                  get_invoice_type(kind), CHOOSE a \in Amounts : TRUE,
                                  previous_hash, is_first, NoHash, Null, user)]
                 /\ pc' = [pc EXCEPT ![p] = "create"]
    /\ UNCHANGED <<records, config, queue, now, aeat, recovery, manager>>

\* apps.py _create_verifactu_record_for_sale, up to the objects.create call
on_sale_completed(p, tax_id, sale_id, date, has_invoice, user) ==
    /\ pc[p] = "idle"
    /\ Room
    /\ IF ~config.enabled \/ has_invoice
       THEN UNCHANGED <<pc, loc>>
       ELSE \E last \in First(records) :
              LET previous_hash == IF last # Null THEN last[1].record_hash ELSE NoHash
                  sequence_number == IF last # Null THEN last[1].sequence_number + 1 ELSE 1
                  is_first == sequence_number = 1
              IN /\ loc' = [loc EXCEPT ![p] =
                        NewRecord("alta", sequence_number, tax_id, "T-" \o sale_id, date,
                                  "F2", CHOOSE a \in Amounts : TRUE,
                                  previous_hash, is_first, NoHash, Null, user)]
                 /\ pc' = [pc EXCEPT ![p] = "create"]
    /\ UNCHANGED <<records, config, queue, now, aeat, recovery, manager>>

\* ------------------------------------------------------------ HashService
\* the authority's answer to get_aeat_last_hash: its last hash, or None when it
\* holds no record or the query fails
AeatAnswers == {Null} \cup (IF aeat = NoHash THEN {} ELSE {Some(aeat)})

\* HashService.get_last_hash (check_aeat_recovery = True): the possible results
get_last_hash(nif) ==
    LET last == First(OfIssuer(nif))
    IN IF last # {Null} THEN {l[1].record_hash : l \in last}
       ELSE IF ~config.has_certificate THEN {NoHash}
       ELSE {IF a # Null /\ a[1] # NoHash THEN a[1] ELSE NoHash : a \in AeatAnswers}

\* HashService.get_next_sequence_number: the possible results
get_next_sequence_number(nif) ==
    {IF l # Null THEN l[1].sequence_number + 1 ELSE 1 : l \in First(OfIssuer(nif))}

\* HashService.create_record_from_invoice, lines 316-323: issuer and previous hash
create_record_read_hash(p, prefix, number, date, kind, record_type) ==
    /\ pc[p] = "idle"
    /\ Room
    /\ LET issuer_nif == IF config.software_nif # "" THEN config.software_nif ELSE prefix
       IN \E previous_hash \in get_last_hash(issuer_nif) :
            loc' = [loc EXCEPT ![p] =
                NewRecord(record_type, 0, issuer_nif, number, date,
                          IF kind = "standard" THEN "F1" ELSE "F2",
                          CHOOSE a \in Amounts : TRUE,
                          previous_hash, FALSE, NoHash, Null, Null)]
    /\ pc' = [pc EXCEPT ![p] = "hs_seq"]
    /\ UNCHANGED <<records, config, queue, now, aeat, recovery, manager>>

\* HashService.create_record_from_invoice, lines 324-368: sequence, first flag, hash
create_record_read_seq(p) ==
    /\ pc[p] = "hs_seq"
    /\ \E sequence_number \in get_next_sequence_number(loc[p].issuer_nif) :
         LET is_first == sequence_number = 1
             record == [loc[p] EXCEPT !.sequence_number = sequence_number,
                                      !.is_first_record = is_first,
                                      !.generation_timestamp = Some(now)]
         IN loc' = [loc EXCEPT ![p] = [record EXCEPT !.record_hash = calculate_hash(record)]]
    /\ pc' = [pc EXCEPT ![p] = "create"]
    /\ UNCHANGED <<records, config, queue, now, aeat, recovery, manager>>

\* ------------------------------------------------------------ persistence
\* VerifactuRecord.save, lines 541-556: fill in the derived fields
Prepared(r) ==
    LET r1 == IF r.generation_timestamp = Null
              THEN [r EXCEPT !.generation_timestamp = Some(now)] ELSE r
    IN IF r1.record_hash = NoHash
       THEN [r1 EXCEPT !.record_hash = calculate_hash(r1)] ELSE r1

\* VerifactuRecord.save of a new instance: INSERT under the unique constraint
save_insert(p) ==
    /\ pc[p] = "create"
    /\ LET r == Prepared(loc[p])
       IN IF UniqueViolation(r)
          THEN /\ pc' = [pc EXCEPT ![p] = "idle"]
               /\ loc' = [loc EXCEPT ![p] = Failed]
               /\ UNCHANGED records
          ELSE /\ records' = records \cup {r}
               /\ loc' = [loc EXCEPT ![p] = r]
               /\ pc' = [pc EXCEPT ![p] = "lock_read"]
    /\ UNCHANGED <<config, queue, now, aeat, recovery, manager>>

\* VerifactuRecord.save, lines 559-561: config = get_config(); if not config.mode_locked
save_lock_read(p) ==
    /\ pc[p] = "lock_read"
    /\ IF config.mode_locked
       THEN /\ pc' = [pc EXCEPT ![p] = "idle"]
            /\ loc' = [loc EXCEPT ![p] = NoRecord]
       ELSE /\ pc' = [pc EXCEPT ![p] = "lock_write"]
            /\ UNCHANGED loc
    /\ UNCHANGED <<records, config, queue, now, aeat, recovery, manager>>

\* VerifactuRecord.save, line 562: config.lock_mode(user_id=self.created_by)
save_lock_write(p) ==
    /\ pc[p] = "lock_write"
    /\ config' = lock_mode([config EXCEPT !.mode_locked = FALSE], loc[p].created_by, now)
    /\ pc' = [pc EXCEPT ![p] = "idle"]
    /\ loc' = [loc EXCEPT ![p] = NoRecord]
    /\ UNCHANGED <<records, queue, now, aeat, recovery, manager>>

\* the clock passes into the next fiscal year
AdvanceYear ==
    /\ now < MaxYear
    /\ now' = now + 1
    /\ UNCHANGED <<records, config, queue, aeat, recovery, manager, pc, loc>>

\* ------------------------------------------------------------ specification
Init ==
    /\ records = {}
    /\ \E e \in BOOLEAN : config = [DefaultConfig EXCEPT !.enabled = e]
    /\ queue = {}
    /\ now = 1
    /\ aeat = NoHash
    /\ recovery = NoRecoveryPoints
    /\ manager = NewManager
    /\ pc = [p \in Procs |-> "idle"]
    /\ loc = [p \in Procs |-> NoRecord]

Next ==
    \/ \E p \in Procs, nif \in Nifs, number \in Numbers, date \in Dates :
          on_invoice_created(p, nif, number, date, "standard", UserOf(p))
    \/ \E p \in Procs, tax_id \in Nifs, sale_id \in SaleIds, date \in Dates,
          has_invoice \in BOOLEAN :
          on_sale_completed(p, tax_id, sale_id, date, has_invoice, UserOf(p))
    \/ \E p \in Procs : save_insert(p)
    \/ \E p \in Procs : save_lock_read(p)
    \/ \E p \in Procs : save_lock_write(p)
    \/ AdvanceYear

Spec == Init /\ [][Next]_vars

\* --- the HashService build path: create_record_from_invoice, then record.save()
AeatHash == <<"AEAT">>

InitHash ==
    /\ records = {}
    /\ \E nif \in {"", "A"}, cert \in BOOLEAN :
         config = [DefaultConfig EXCEPT !.software_nif = nif, !.has_certificate = cert]
    /\ queue = {}
    /\ now \in Years
    /\ aeat \in {NoHash, AeatHash}
    /\ recovery = NoRecoveryPoints
    /\ manager = NewManager
    /\ pc = [p \in Procs |-> "idle"]
    /\ loc = [p \in Procs |-> NoRecord]

NextHash ==
    \/ \E p \in Procs, prefix \in Nifs, number \in Numbers, date \in Dates,
          record_type \in {"alta", "anulacion"} :
          create_record_read_hash(p, prefix, number, date, "standard", record_type)
    \/ \E p \in Procs : create_record_read_seq(p)
    \/ \E p \in Procs : save_insert(p)
    \/ \E p \in Procs : save_lock_read(p)
    \/ \E p \in Procs : save_lock_write(p)

SpecHash == InitHash /\ [][NextHash]_vars

\* --- the store's own interface: objects.create(**fields), save() of a stored
\* --- record, delete()
BogusHash == <<"X">>

\* VerifactuRecord.objects.create(**fields): the caller chooses every field
objects_create(p, seq, nif, number, date, prev, hash, user) ==
    /\ pc[p] = "idle"
    /\ StoreRoom
    /\ loc' = [loc EXCEPT ![p] =
            NewRecord("alta", seq, nif, number, date, "F1", CHOOSE a \in Amounts : TRUE,
                      prev, seq = 1, hash, Null, user)]
    /\ pc' = [pc EXCEPT ![p] = "create"]
    /\ UNCHANGED <<records, config, queue, now, aeat, recovery, manager>>

\* VerifactuRecord.save of a stored row (is_new = False) after a status change
save_update(r, status) ==
    /\ r \in records
    /\ r.status # status
    /\ records' = (records \ {r}) \cup {Prepared([r EXCEPT !.status = status])}
    /\ UNCHANGED <<config, queue, now, aeat, recovery, manager, pc, loc>>

\* record.delete(): no override in VerifactuRecord, the row goes (queue rows cascade)
delete_record(r) ==
    /\ r \in records
    /\ records' = records \ {r}
    /\ queue' = {q \in queue : q.record # RecordKey(r)}
    /\ UNCHANGED <<config, now, aeat, recovery, manager, pc, loc>>

\* VerifactuRecord.objects.all().delete()
delete_all ==
    /\ records # {}
    /\ records' = {}
    /\ queue' = {}
    /\ UNCHANGED <<config, now, aeat, recovery, manager, pc, loc>>

\* previous hashes a caller may pass: none, a foreign one, or that of a stored
\* record that itself starts a chain
StorePrevs ==
    {NoHash, BogusHash}
        \cup {r.record_hash : r \in {x \in records : x.previous_hash \in {NoHash, BogusHash}}}

InitStore ==
    /\ records = {}
    /\ config = DefaultConfig
    /\ queue = {}
    /\ now = 1
    /\ aeat = NoHash
    /\ recovery = NoRecoveryPoints
    /\ manager = NewManager
    /\ pc = [p \in Procs |-> "idle"]
    /\ loc = [p \in Procs |-> NoRecord]

NextStore ==
    \/ \E seq \in 1..(MaxStoreRecords + 1), number \in Numbers \cup {"F-2"}, date \in Dates,
          prev \in StorePrevs, hash \in {NoHash, BogusHash} :
          objects_create("w1", seq, "A", number, date, prev, hash, UserOf("w1"))
    \/ save_insert("w1")
    \/ save_lock_read("w1")
    \/ save_lock_write("w1")
    \/ \E r \in records : save_update(r, "transmitted")
    \/ \E r \in records : delete_record(r)
    \/ delete_all

SpecStore == InitStore /\ [][NextStore]_vars

\* --- the configuration singleton on its own: the mode-change view and the lock
\* what the change_mode view answers when it refuses
Refused == [record_type |-> "403"]

\* views.py change_mode, lines 248-255: read the row, refuse while locked
change_mode_read(p, new_mode) ==
    /\ pc[p] = "idle"
    /\ IF ~can_change_mode(config, now)
       THEN /\ loc' = [loc EXCEPT ![p] = Refused]
            /\ UNCHANGED pc
       ELSE /\ loc' = [loc EXCEPT ![p] = [record_type |-> "config", row |-> config,
                                          new_mode |-> new_mode]]
            /\ pc' = [pc EXCEPT ![p] = "cm_write"]
    /\ UNCHANGED <<records, config, queue, now, aeat, recovery, manager>>

\* views.py change_mode, lines 257-269: validate the mode, save the whole row
change_mode_write(p) ==
    /\ pc[p] = "cm_write"
    /\ IF loc[p].new_mode \notin {"verifactu", "no_verifactu"}
       THEN UNCHANGED config
       ELSE config' = [loc[p].row EXCEPT !.mode = loc[p].new_mode]
    /\ pc' = [pc EXCEPT ![p] = "idle"]
    /\ loc' = [loc EXCEPT ![p] = NoRecord]
    /\ UNCHANGED <<records, queue, now, aeat, recovery, manager>>

\* config.lock_mode(user_id) on a freshly read row
config_lock_mode(user_id) ==
    /\ config' = lock_mode(config, user_id, now)
    /\ config' # config
    /\ UNCHANGED <<records, queue, now, aeat, recovery, manager, pc, loc>>

InitConfig ==
    /\ records = {}
    /\ \E locked \in BOOLEAN, fy \in {Null} \cup {Some(y) : y \in Years} :
         config = [DefaultConfig EXCEPT !.mode_locked = locked,
                                        !.fiscal_year_locked = fy,
                                        !.module_activated = locked]
    /\ queue = {}
    /\ now \in Years
    /\ aeat = NoHash
    /\ recovery = NoRecoveryPoints
    /\ manager = NewManager
    /\ pc = [p \in Procs |-> "idle"]
    /\ loc = [p \in Procs |-> NoRecord]

NextConfig ==
    \/ \E p \in Procs, new_mode \in {"verifactu", "no_verifactu", "other"} :
          change_mode_read(p, new_mode)
    \/ \E p \in Procs : change_mode_write(p)
    \/ \E p \in Procs : config_lock_mode(UserOf(p))
    \/ AdvanceYear

SpecConfig == InitConfig /\ [][NextConfig]_vars

\* --- record creation racing the configuration views
\* VerifactuRecord.save, lines 558-562: get_config() or lock_mode() raises after
\* the INSERT; the signal handler logs the exception and returns
save_lock_abort(p) ==
    /\ pc[p] \in {"lock_read", "lock_write"}
    /\ pc' = [pc EXCEPT ![p] = "idle"]
    /\ loc' = [loc EXCEPT ![p] = NoRecord]
    /\ UNCHANGED <<records, config, queue, now, aeat, recovery, manager>>

\* views.py settings_view, line 177: config = VerifactuConfig.get_config()
settings_view_read(p) ==
    /\ pc[p] = "idle"
    /\ loc' = [loc EXCEPT ![p] = [record_type |-> "config", row |-> config]]
    /\ pc' = [pc EXCEPT ![p] = "settings_write"]
    /\ UNCHANGED <<records, config, queue, now, aeat, recovery, manager>>

\* views.py settings_view, lines 186-199: set the posted fields, save the whole row
settings_view_write(p, software_nif) ==
    /\ pc[p] = "settings_write"
    /\ config' = [loc[p].row EXCEPT !.software_nif = software_nif]
    /\ pc' = [pc EXCEPT ![p] = "idle"]
    /\ loc' = [loc EXCEPT ![p] = NoRecord]
    /\ UNCHANGED <<records, queue, now, aeat, recovery, manager>>

\* views.py upload_certificate, line 371: config = VerifactuConfig.get_config()
upload_certificate_read(p) ==
    /\ pc[p] = "idle"
    /\ loc' = [loc EXCEPT ![p] = [record_type |-> "config", row |-> config]]
    /\ pc' = [pc EXCEPT ![p] = "upload_write"]
    /\ UNCHANGED <<records, config, queue, now, aeat, recovery, manager>>

\* views.py upload_certificate, lines 372-376: set path and password, save the whole row
upload_certificate_write(p) ==
    /\ pc[p] = "upload_write"
    /\ config' = [loc[p].row EXCEPT !.has_certificate = TRUE]
    /\ pc' = [pc EXCEPT ![p] = "idle"]
    /\ loc' = [loc EXCEPT ![p] = NoRecord]
    /\ UNCHANGED <<records, queue, now, aeat, recovery, manager>>

NextLock ==
    \/ \E p \in Procs, number \in Numbers, date \in Dates :
          on_invoice_created(p, "A", number, date, "standard", UserOf(p))
    \/ \E p \in Procs : save_insert(p)
    \/ \E p \in Procs : save_lock_read(p)
    \/ \E p \in Procs : save_lock_write(p)
    \/ \E p \in Procs : save_lock_abort(p)
    \/ \E p \in Procs : settings_view_read(p)
    \/ \E p \in Procs : settings_view_write(p, "A")
    \/ \E p \in Procs, new_mode \in {"verifactu", "no_verifactu"} :
          change_mode_read(p, new_mode)
    \/ \E p \in Procs : change_mode_write(p)
    \/ \E p \in Procs : upload_certificate_read(p)
    \/ \E p \in Procs : upload_certificate_write(p)
    \/ AdvanceYear

SpecLock == Init /\ [][NextLock]_vars

\* --- chain recovery: the recovery pointer store and the reconciliation service
\* a hash typed in by the operator, and one that fails validate_hash_format
ManualHash == <<"MANUAL">>
MalformedHash == <<"malformed">>

\* HashService.validate_hash_format: 64 upper-case hexadecimal characters
validate_hash_format(h) == h # NoHash /\ h # MalformedHash

\* a pointer store that answers with the pointer whenever one is stored
get_effective_last_hash_pointer_first(nif) ==
    IF recovery[nif] # Null THEN {recovery[nif][1]}
    ELSE IF OfIssuer(nif) # {} THEN {r.record_hash : r \in LastOf(OfIssuer(nif))}
    ELSE {NoHash}

\* ChainRecoveryService.get_effective_last_hash: the possible answers
get_effective_last_hash(nif) ==
    IF OfIssuer(nif) # {} THEN {r.record_hash : r \in LastOf(OfIssuer(nif))}
    ELSE IF recovery[nif] # Null THEN {recovery[nif][1]}
    ELSE {NoHash}

\* a caller asking for the hash to chain onto
effective_last_hash_query(p, nif) ==
    /\ pc[p] = "idle"
    /\ \E h \in get_effective_last_hash(nif) :
          loc' = [loc EXCEPT ![p] = [record_type |-> "hash", nif |-> nif, value |-> h]]
    /\ UNCHANGED <<records, config, queue, now, aeat, recovery, manager, pc>>

\* ChainRecoveryService.recover_from_aeat: query the authority, store the pointer
recover_from_aeat(nif, up) ==
    /\ config.has_certificate
    /\ up
    /\ aeat # NoHash
    /\ recovery' = [recovery EXCEPT ![nif] = Some(aeat)]
    /\ recovery' # recovery
    /\ UNCHANGED <<records, config, queue, now, aeat, manager, pc, loc>>

\* a manual recovery that also relinks the stored chain to the given hash
recover_manual_relinking(nif, last_hash) ==
    /\ validate_hash_format(last_hash)
    /\ recovery' = [recovery EXCEPT ![nif] = Some(last_hash)]
    /\ recovery' # recovery
    /\ records' = {IF r.issuer_nif = nif /\ r.sequence_number = 1
                   THEN [r EXCEPT !.previous_hash = last_hash] ELSE r : r \in records}
    /\ UNCHANGED <<config, queue, now, aeat, manager, pc, loc>>

\* ChainRecoveryService.recover_manual: check the format, store the pointer
recover_manual(nif, last_hash) ==
    /\ validate_hash_format(last_hash)
    /\ recovery' = [recovery EXCEPT ![nif] = Some(last_hash)]
    /\ recovery' # recovery
    /\ UNCHANGED <<records, config, queue, now, aeat, manager, pc, loc>>

ReconciliationResult(status, conflict, local_hash, aeat_hash, local_count, aeat_count, auto) ==
    [record_type |-> "reconciliation", status |-> status, conflict_type |-> conflict,
     local_last_hash |-> local_hash, aeat_last_hash |-> aeat_hash,
     local_record_count |-> local_count, aeat_record_count |-> aeat_count,
     can_auto_resolve |-> auto]

\* ReconciliationService.reconcile without its check of the issuer NIF
reconcile_any_issuer(issuer, up) ==
    IF ~config.has_certificate
    THEN {ReconciliationResult("no_certificate", "none", NoHash, NoHash, 0, 0, FALSE)}
    ELSE LET nif == IF issuer = Null THEN config.software_nif ELSE issuer[1]
         IN  {LET local_last_hash == IF l = Null THEN NoHash ELSE l[1].record_hash
                  local_count == Cardinality(OfIssuer(nif))
                  aeat_count == IF aeat = NoHash THEN 0 ELSE 1
              IN  IF ~up
                  THEN ReconciliationResult("aeat_unavailable", "none",
                                            local_last_hash, NoHash, local_count, 0, FALSE)
                  ELSE IF local_last_hash = aeat
                  THEN ReconciliationResult("success", "none",
                                            local_last_hash, aeat, local_count, aeat_count, FALSE)
                  ELSE ReconciliationResult("mismatch_detected", "none",
                                            local_last_hash, aeat, local_count, aeat_count, FALSE)
              : l \in First(OfIssuer(nif))}

\* ReconciliationService.reconcile: the possible results (issuer Null is issuer_nif=None)
reconcile(issuer, up) ==
    IF ~config.has_certificate
    THEN {ReconciliationResult("no_certificate", "none", NoHash, NoHash, 0, 0, FALSE)}
    ELSE LET nif == IF issuer = Null THEN config.software_nif ELSE issuer[1]
         IN  IF nif = ""
             THEN {ReconciliationResult("failed", "none", NoHash, NoHash, 0, 0, FALSE)}
             ELSE {LET local_last_hash == IF l = Null THEN NoHash ELSE l[1].record_hash
                       local_count == Cardinality(OfIssuer(nif))
                       aeat_count == IF aeat = NoHash THEN 0 ELSE 1
                   IN  IF ~up
                       THEN ReconciliationResult("aeat_unavailable", "none",
                                                 local_last_hash, NoHash, local_count, 0, FALSE)
                       ELSE IF local_last_hash = aeat
                       THEN ReconciliationResult("success", "none",
                                                 local_last_hash, aeat, local_count, aeat_count, FALSE)
                       ELSE ReconciliationResult("mismatch_detected", "none",
                                                 local_last_hash, aeat, local_count, aeat_count, FALSE)
                   : l \in First(OfIssuer(nif))}

\* ReconciliationService._is_local_behind: the authority's hash is in the local chain
is_local_behind(issuer, aeat_last_hash) ==
    /\ issuer # Null
    /\ \E r \in OfIssuer(issuer[1]) : r.record_hash = aeat_last_hash

\* ReconciliationService.diagnose_conflict, after reconcile() returned result
classify(result, issuer) ==
    IF result.status = "success" THEN [result EXCEPT !.conflict_type = "none"]
    ELSE IF result.status \in {"no_certificate", "aeat_unavailable"} THEN result
    ELSE IF result.local_record_count = 0 /\ result.aeat_record_count > 0
    THEN [result EXCEPT !.conflict_type = "local_behind", !.can_auto_resolve = TRUE]
    ELSE IF result.local_record_count > 0 /\ result.aeat_record_count = 0
    THEN [result EXCEPT !.conflict_type = "local_ahead", !.can_auto_resolve = TRUE]
    ELSE IF result.local_last_hash # result.aeat_last_hash
    THEN IF is_local_behind(issuer, result.aeat_last_hash)
         THEN [result EXCEPT !.conflict_type = "local_behind", !.can_auto_resolve = TRUE]
         ELSE [result EXCEPT !.conflict_type = "hash_mismatch",
                             !.status = "manual_intervention_required"]
    ELSE result

diagnose_conflict(issuer, up) == {classify(result, issuer) : result \in reconcile(issuer, up)}

\* ReconciliationService._resolve_local_behind: logs the recovery, stores nothing
resolve_local_behind(diagnosis) ==
    IF diagnosis.aeat_last_hash = NoHash
    THEN ReconciliationResult("failed", "local_behind", NoHash, NoHash, 0, 0, FALSE)
    ELSE ReconciliationResult("chain_recovered", "local_behind", NoHash,
                              diagnosis.aeat_last_hash, 0, 0, TRUE)

\* ReconciliationService._resolve_local_ahead
resolve_local_ahead(nif, diagnosis) ==
    IF /\ {q \in queue : q.status \in {"pending", "retrying"}} = {}
       /\ {r \in OfIssuer(nif) : r.status \in {"pending", "retry"}} = {}
    THEN ReconciliationResult("success", "none", NoHash, NoHash, 0, 0, FALSE)
    ELSE ReconciliationResult("mismatch_detected", "local_ahead", NoHash, NoHash,
                              diagnosis.local_record_count, 0, TRUE)

\* ReconciliationService.resolve_conflict: its result is left in loc[p]
resolve_conflict(p, issuer, up) ==
    /\ pc[p] = "idle"
    /\ \E diagnosis \in diagnose_conflict(issuer, up) :
          LET nif == IF issuer = Null THEN config.software_nif ELSE issuer[1]
              result == IF diagnosis.conflict_type = "none" THEN diagnosis
                        ELSE IF ~diagnosis.can_auto_resolve THEN diagnosis
                        ELSE IF diagnosis.conflict_type = "local_behind"
                        THEN resolve_local_behind(diagnosis)
                        ELSE IF diagnosis.conflict_type = "local_ahead"
                        THEN resolve_local_ahead(nif, diagnosis)
                        ELSE diagnosis
          IN  loc' = [loc EXCEPT ![p] = result]
    /\ loc' # loc
    /\ UNCHANGED <<records, config, queue, now, aeat, recovery, manager, pc>>

InitRecovery ==
    /\ records = {}
    /\ \E cert \in BOOLEAN :
         config = [DefaultConfig EXCEPT !.enabled = TRUE, !.software_nif = "A",
                                        !.has_certificate = cert]
    /\ queue = {}
    /\ now = 1
    /\ aeat \in {NoHash, AeatHash}
    /\ recovery = NoRecoveryPoints
    /\ manager = NewManager
    /\ pc = [p \in Procs |-> "idle"]
    /\ loc = [p \in Procs |-> NoRecord]

NextRecovery ==
    \/ \E issuer \in {Null, Some("A")}, up \in BOOLEAN : resolve_conflict("w1", issuer, up)
    \/ \E nif \in Nifs, up \in BOOLEAN : recover_from_aeat(nif, up)
    \/ \E nif \in Nifs, h \in {ManualHash, MalformedHash} : recover_manual(nif, h)
    \/ \E nif \in Nifs : effective_last_hash_query("w1", nif)
    \/ \E number \in Numbers, date \in Dates :
          on_invoice_created("w2", "A", number, date, "standard", UserOf("w2"))
    \/ \E number \in Numbers, date \in Dates :
          create_record_read_hash("w2", "A", number, date, "standard", "anulacion")
    \/ create_record_read_seq("w2")
    \/ save_insert("w2")
    \/ save_lock_read("w2")
    \/ save_lock_write("w2")

SpecRecovery == InitRecovery /\ [][NextRecovery]_vars

\* --- the contingency manager
FailureTypes ==
    {"network", "aeat_unavailable", "certificate", "hash_chain", "database",
     "validation", "unknown"}

\* keyword arguments VerifactuEvent(...) accepts: its fields and their attnames
VerifactuEventFields ==
    {"id", "pk", "record", "record_id", "event_type", "severity", "message",
     "details", "timestamp", "created_at", "updated_at"}

\* a VerifactuEvent that accepts every keyword it is given
create_event_accepts_all(kwargs) == FALSE

\* Model.__init__ raises TypeError on a keyword that is not a field
create_event_raises(kwargs) == ~(kwargs \subseteq VerifactuEventFields)

\* ContingencyManager.record_failure, lines 213-224: the mode for a failure
mode_after_failure(mode, failure_type, failure_count) ==
    IF failure_type \in {"network", "aeat_unavailable"}
    THEN IF failure_count >= 3 THEN "offline" ELSE "degraded"
    ELSE IF failure_type = "hash_chain" THEN "recovery"
    ELSE IF failure_type = "certificate" THEN "offline"
    ELSE mode

\* ContingencyManager.record_failure
record_failure(failure_type) ==
    /\ manager.failure_count < MaxFailures
    /\ LET counted == [manager EXCEPT !.failure_count = @ + 1,
                                      !.failure_type = Some(failure_type)]
       IN  manager' =
             IF create_event_raises({"event_type", "description", "record_id"})
             THEN counted
             ELSE [counted EXCEPT !.mode = mode_after_failure(counted.mode, failure_type,
                                                               counted.failure_count)]
    /\ UNCHANGED <<records, config, queue, now, aeat, recovery, pc, loc>>

\* ContingencyManager.record_success
record_success ==
    /\ manager' = IF manager.mode # "normal"
                  THEN [manager EXCEPT !.last_successful_submission = Some(now),
                                       !.failure_count = 0,
                                       !.mode = "normal",
                                       !.failure_type = Null]
                  ELSE [manager EXCEPT !.last_successful_submission = Some(now),
                                       !.failure_count = 0]
    /\ manager' # manager
    /\ UNCHANGED <<records, config, queue, now, aeat, recovery, pc, loc>>

\* ContingencyManager._can_create_records, as reported by get_status()
can_create_records(m) == m.failure_type # Some("hash_chain")


InitManager ==
    /\ records = {}
    /\ config = DefaultConfig
    /\ queue = {}
    /\ now = 1
    /\ aeat = NoHash
    /\ recovery = NoRecoveryPoints
    /\ manager = NewManager
    /\ pc = [p \in Procs |-> "idle"]
    /\ loc = [p \in Procs |-> NoRecord]

NextManager ==
    \/ \E failure_type \in FailureTypes : record_failure(failure_type)
    \/ record_success
    \/ AdvanceYear

SpecManager == InitManager /\ [][NextManager]_vars

\* --- the contingency queue
Priorities == {1, 2, 3}
EntryStatuses == {"pending", "retrying", "failed"}
Responses == {"success", "rejected", "error"}
RETRY_INTERVALS == <<60, 300, 900, 3600, 7200>>

\* names ContingencyQueue accepts as keyword arguments and as filter lookups:
\* its fields, their attnames, and those of TimeStampedModel
ContingencyQueueFields ==
    {"id", "pk", "record", "record_id", "priority", "queued_at", "attempts",
     "last_attempt_at", "last_error", "next_attempt_at", "status",
     "created_at", "updated_at"}

\* Model.__init__ raises TypeError on a keyword that is not a field
create_entry_raises(kwargs) == ~(kwargs \subseteq ContingencyQueueFields)

\* a filter that accepts every lookup it is given
filter_accepts_all(lookups) == FALSE

\* QuerySet.filter raises FieldError on a lookup that is not a field
filter_raises(lookups) == ~(lookups \subseteq ContingencyQueueFields)

\* a ContingencyQueue row as INSERTed: queued_at is auto_now_add, attempts 0
NewEntry(r, priority, next_attempt_at, status) ==
    [record |-> RecordKey(r), priority |-> priority, queued_at |-> now,
     attempts |-> 0, last_error |-> "", next_attempt_at |-> next_attempt_at,
     status |-> status]

\* the table without the uniqueness of its OneToOneField
NoEntryViolation(r) == FALSE

\* ContingencyQueue.record is a OneToOneField: one row per record
EntryViolation(r) == \E q \in queue : q.record = RecordKey(r)

\* ContingencyQueue.objects.create(record=..., priority=..., status=..., next_attempt_at=...)
queue_objects_create(p, r, priority, next_attempt_at, status) ==
    /\ pc[p] = "idle"
    /\ r \in records
    /\ IF EntryViolation(r)
       THEN /\ loc' = [loc EXCEPT ![p] = Failed]
            /\ UNCHANGED queue
       ELSE /\ queue' = queue \cup {NewEntry(r, priority, next_attempt_at, status)}
            /\ loc' = [loc EXCEPT ![p] = [record_type |-> "queued", record |-> RecordKey(r)]]
    /\ UNCHANGED <<records, config, now, aeat, recovery, manager, pc>>

\* ContingencyManager.queue_record: objects.create(record, reason, priority, retry_count)
queue_record(p, r, priority) ==
    /\ pc[p] = "idle"
    /\ r \in records
    /\ IF create_entry_raises({"record", "reason", "priority", "retry_count"})
       THEN /\ loc' = [loc EXCEPT ![p] = [record_type |-> "TypeError", record |-> RecordKey(r)]]
            /\ UNCHANGED queue
       ELSE IF EntryViolation(r)
       THEN /\ loc' = [loc EXCEPT ![p] = Failed]
            /\ UNCHANGED queue
       ELSE /\ queue' = queue \cup {NewEntry(r, priority, Null, "pending")}
            /\ loc' = [loc EXCEPT ![p] = [record_type |-> "queued", record |-> RecordKey(r)]]
    /\ UNCHANGED <<records, config, now, aeat, recovery, manager, pc>>

\* ContingencyQueue.get_ready_for_retry: rows whose next_attempt_at has come
get_ready_for_retry ==
    {q \in queue : q.next_attempt_at # Null /\ q.next_attempt_at[1] <= now}

\* order_by('priority', <insertion time>): the rows that may come first
Heads(S) ==
    {q \in S : \A s \in S : \/ q.priority < s.priority
                            \/ q.priority = s.priority /\ q.queued_at <= s.queued_at}

\* ContingencyManager._calculate_next_retry at time t
calculate_next_retry(m, t) ==
    IF m.mode = "normal" THEN Null
    ELSE LET interval_index ==
                 IF m.failure_count < Len(RETRY_INTERVALS) - 1
                 THEN m.failure_count ELSE Len(RETRY_INTERVALS) - 1
         IN  Some(t + RETRY_INTERVALS[interval_index + 1])

\* ContingencyManager.record_success applied to a manager value
succeeded(m) ==
    IF m.mode # "normal"
    THEN [m EXCEPT !.last_successful_submission = Some(now), !.failure_count = 0,
                   !.mode = "normal", !.failure_type = Null]
    ELSE [m EXCEPT !.last_successful_submission = Some(now), !.failure_count = 0]

\* what a process_queue call leaves with its caller: its return value or the
\* exception that ended it, and the records it submitted, for the authority's
\* answer `response` to a submission made during the call
Processed(response, outcome, submitted, successful, failed) ==
    [record_type |-> "process_queue", response |-> response, outcome |-> outcome,
     submitted |-> submitted, successful |-> successful, failed |-> failed]

\* ContingencyManager.process_queue. get_pending_records filters on next_retry;
\* in the loop every branch reads queue_entry.retry_count, which no instance
\* has, so the AttributeError raised in the except clause ends the call on the
\* first entry (after the success branch has saved the record and the entry and
\* its VerifactuEvent.objects.create(description=...) has raised TypeError).
process_queue_at(p, response, at) ==
    /\ pc[p] = at
    /\ IF manager.mode = "offline"
       THEN /\ loc' = [loc EXCEPT ![p] = Processed(response, "returned", << >>, 0, 0)]
            /\ UNCHANGED <<records, queue, manager>>
       ELSE IF filter_raises({"status", "next_retry"})
       THEN /\ loc' = [loc EXCEPT ![p] = Processed(response, "FieldError", << >>, 0, 0)]
            /\ UNCHANGED <<records, queue, manager>>
       ELSE LET pending == {q \in queue : q.status \in {"pending", "retrying"}}
            IN IF pending = {}
               THEN /\ loc' = [loc EXCEPT ![p] = Processed(response, "returned", << >>, 0, 0)]
                    /\ UNCHANGED <<records, queue, manager>>
               ELSE IF ~config.has_certificate
               THEN /\ loc' = [loc EXCEPT ![p] =
                            Processed(response, "returned", << >>, 0, Cardinality(pending))]
                    /\ UNCHANGED <<records, queue, manager>>
               ELSE \E queue_entry \in Heads(pending) :
                      /\ loc' = [loc EXCEPT ![p] =
                              Processed(response, "AttributeError", <<queue_entry.record>>, 0, 0)]
                      /\ IF response = "success"
                         THEN /\ records' =
                                   {IF RecordKey(r) = queue_entry.record
                                    THEN [r EXCEPT !.status = "transmitted",
                                                   !.aeat_csv = Some("CSV"),
                                                   !.transmission_timestamp = Some(now)]
                                    ELSE r : r \in records}
                              /\ queue' = (queue \ {queue_entry})
                                     \cup {[queue_entry EXCEPT !.status = "completed"]}
                              /\ manager' = succeeded(manager)
                         ELSE UNCHANGED <<records, queue, manager>>
    /\ pc' = [pc EXCEPT ![p] = "idle"]
    /\ UNCHANGED <<config, now, aeat, recovery>>

\* a process_queue call made and completed in one step
process_queue(p, response) == process_queue_at(p, response, "idle")

\* views.retry_record: status = 'pending' is saved; retry_count and next_retry
\* are attributes of the instance only
retry_record(queue_entry) ==
    /\ queue_entry \in queue
    /\ queue_entry.status # "pending"
    /\ queue' = (queue \ {queue_entry}) \cup {[queue_entry EXCEPT !.status = "pending"]}
    /\ UNCHANGED <<records, config, now, aeat, recovery, manager, pc, loc>>

\* views.cancel_queue_entry: status = 'cancelled' is saved before the event
\* creation raises
cancel_queue_entry(queue_entry) ==
    /\ queue_entry \in queue
    /\ queue_entry.status # "cancelled"
    /\ queue' = (queue \ {queue_entry}) \cup {[queue_entry EXCEPT !.status = "cancelled"]}
    /\ UNCHANGED <<records, config, now, aeat, recovery, manager, pc, loc>>

\* the store after the signal handler has built the alta record of invoice F-1
\* and the builder its anulacion record, in year 1
QueueStore ==
    LET alta == [NewRecord("alta", 1, "A", "F-1", "d1", "F1", <<21, 121>>, NoHash, TRUE,
                           NoHash, Some(1), UserOf("w2"))
                    EXCEPT !.record_hash =
                               calculate_alta_hash("A", "F-1", "d1", "F1", 21, 121, NoHash, Some(1))]
        anulacion == [NewRecord("anulacion", 2, "A", "F-1", "d1", "F1", <<21, 121>>,
                                alta.record_hash, FALSE, NoHash, Some(1), Null)
                         EXCEPT !.record_hash =
                                    calculate_anulacion_hash("A", "F-1", "d1", alta.record_hash, Some(1))]
    IN  {alta, anulacion}

InitQueue ==
    /\ records = QueueStore
    /\ \E cert \in BOOLEAN :
         config = lock_mode([DefaultConfig EXCEPT !.enabled = TRUE, !.software_nif = "A",
                                                  !.has_certificate = cert],
                            UserOf("w2"), 1)
    /\ queue = {}
    /\ now = 1
    /\ aeat = NoHash
    /\ recovery = NoRecoveryPoints
    /\ manager = NewManager
    /\ pc = [p \in Procs |-> "idle"]
    /\ loc = [p \in Procs |-> NoRecord]

NextQueue ==
    \/ \E r \in records, priority \in Priorities, status \in EntryStatuses,
          next_attempt_at \in {Null, Some(now)} :
          queue_objects_create("w1", r, priority, next_attempt_at, status)
    \/ \E r \in records : queue_record("w1", r, 0)
    \/ \E response \in Responses : process_queue("w1", response)
    \/ \E q \in queue : retry_record(q)
    \/ \E q \in queue : cancel_queue_entry(q)
    \/ \E r \in records : delete_record(r)
    \/ AdvanceYear

SpecQueue == InitQueue /\ [][NextQueue]_vars

\* the transmission loop keeps running: a process_queue call that can be made
\* is eventually made
SpecQueueLive ==
    SpecQueue /\ WF_vars(\E response \in Responses : process_queue("w1", response))

\* --- reconciliation on demand
\* whether a reconcile(issuer_nif) call reaches client.query_last_records
queries_authority(issuer) ==
    /\ config.has_certificate
    /\ (IF issuer = Null THEN config.software_nif ELSE issuer[1]) # ""

\* a call of `operation` with the arguments it was given, whether it queried the
\* authority and the ReconciliationResult it returned
Call(operation, issuer, up, result) ==
    [record_type |-> operation, issuer |-> issuer, up |-> up,
     queried |-> queries_authority(issuer), result |-> result]

\* service.reconcile(issuer_nif), the authority answering its query or not
reconcile_call_at(p, issuer, up, at) ==
    /\ pc[p] = at
    /\ \E result \in reconcile(issuer, up) :
          loc' = [loc EXCEPT ![p] = Call("reconcile", issuer, up, result)]
    /\ pc' = [pc EXCEPT ![p] = "idle"]
    /\ UNCHANGED <<records, config, queue, now, aeat, recovery, manager>>

\* a reconcile call made and completed in one step
reconcile_call(p, issuer, up) == reconcile_call_at(p, issuer, up, "idle")

\* service.diagnose_conflict(issuer_nif)
diagnose_conflict_call(p, issuer, up) ==
    /\ pc[p] = "idle"
    /\ \E result \in diagnose_conflict(issuer, up) :
          loc' = [loc EXCEPT ![p] = Call("diagnose_conflict", issuer, up, result)]
    /\ UNCHANGED <<records, config, queue, now, aeat, recovery, manager, pc>>

\* the authority's own state: the last hash it holds for the issuer is none,
\* one that is not in the local store, or that of a record of the local store
\* (one transmitted before the store was restored from a backup)
authority_holds(h) ==
    /\ aeat # h
    /\ aeat' = h
    /\ UNCHANGED <<records, config, queue, now, recovery, manager, pc, loc>>

InitReconcile ==
    /\ records = {}
    /\ \E cert \in BOOLEAN, nif \in {"", "A"} :
         config = [DefaultConfig EXCEPT !.enabled = TRUE, !.software_nif = nif,
                                        !.has_certificate = cert]
    /\ queue = {}
    /\ now = 1
    /\ aeat = NoHash
    /\ recovery = NoRecoveryPoints
    /\ manager = NewManager
    /\ pc = [p \in Procs |-> "idle"]
    /\ loc = [p \in Procs |-> NoRecord]

NextReconcile ==
    \/ \E issuer \in {Null, Some("A")}, up \in BOOLEAN : reconcile_call("w1", issuer, up)
    \/ \E issuer \in {Null, Some("A")}, up \in BOOLEAN : diagnose_conflict_call("w1", issuer, up)
    \/ \E h \in {NoHash, AeatHash} \cup {r.record_hash : r \in records} : authority_holds(h)
    \/ \E number \in Numbers, date \in Dates :
          on_invoice_created("w2", "A", number, date, "standard", UserOf("w2"))
    \/ \E number \in Numbers, date \in Dates :
          create_record_read_hash("w2", "A", number, date, "standard", "anulacion")
    \/ create_record_read_seq("w2")
    \/ save_insert("w2")
    \/ save_lock_read("w2")
    \/ save_lock_write("w2")

SpecReconcile == InitReconcile /\ [][NextReconcile]_vars

\* --- the transmission loop under failures: entries queued as due, failures
\* recorded by the submitting code, processing rounds
NextDrain ==
    \/ \E r \in records :
          queue_objects_create("w1", r, 2, Some(now), "pending")
    \/ \E response \in Responses : process_queue("w1", response)
    \/ \E failure_type \in {"network", "certificate"} : record_failure(failure_type)
    \/ AdvanceYear

\* the authority answers every submission: a round that can be made against
\* the reachable authority is eventually made
SpecDrain ==
    InitQueue /\ [][NextDrain]_vars /\ WF_vars(process_queue("w1", "success"))

\* --- the save signals of VerifactuConfig
CertPaths == {"", "p1", "p2"}
CertPasswords == {"", "s1"}
ConfigHandlers == {"upload_certificate", "settings_view", "lock_mode"}
ReconciledStatuses == {"success", "mismatch_detected", "aeat_unavailable", "failed"}

\* the VerifactuConfig row with its certificate and reconciliation columns
SignalConfig ==
    DefaultConfig @@ [certificate_path |-> "", certificate_password |-> "",
                      last_reconciliation_status |-> ""]

\* ReconciliationService.has_certificate on a row, kept in has_certificate
certified(c) ==
    [c EXCEPT !.has_certificate = c.certificate_path # "" /\ c.certificate_password # ""]

\* trigger_reconciliation_on_certificate_config, lines 56-66: previous_* are
\* the stored values capture_previous_certificate_state read before the write
should_reconcile(previous_path, previous_password, current_path, current_password) ==
    LET certificate_was_empty == previous_path = "" \/ previous_password = ""
        certificate_is_now_set == current_path # "" /\ current_password # ""
        certificate_changed == \/ previous_path # current_path
                               \/ previous_password # current_password
    IN  certificate_is_now_set /\ (certificate_was_empty \/ certificate_changed)

\* config = VerifactuConfig.get_config() in a handler, and the assignments the
\* handler makes to the instance before it saves: upload_certificate sets path
\* and password, settings_view the path when the form carries one,
\* VerifactuRecord.save (lock_mode) the lock fields of a row not yet locked
get_config(p, handler, path, password) ==
    /\ pc[p] = "idle"
    /\ handler = "lock_mode" => ~config.mode_locked
    /\ handler = "upload_certificate" => path # ""
    /\ LET instance ==
             IF handler = "upload_certificate"
             THEN [config EXCEPT !.certificate_path = path,
                                 !.certificate_password = password]
             ELSE IF handler = "settings_view"
             THEN [config EXCEPT !.certificate_path = path]
             ELSE lock_mode(config, UserOf(p), now)
       IN  loc' = [loc EXCEPT ![p] =
                    [record_type |-> "config", handler |-> handler, row |-> instance]]
    /\ pc' = [pc EXCEPT ![p] = "cfg"]
    /\ UNCHANGED <<records, config, queue, now, aeat, recovery, manager>>

\* the lock columns of save(update_fields=[...]) in lock_mode
LockFields ==
    {"mode_locked", "mode_locked_at", "mode_locked_by", "fiscal_year_locked",
     "module_activated", "first_record_date"}

\* instance.save(): pre_save reads the stored certificate, the row (or, for
\* lock_mode, its lock columns) is written, post_save decides on the instance
\* and, when reconcile_on_certificate_config finds a certificate stored and
\* returns a result, _update_reconciliation_status writes it with update()
config_save(p, status) ==
    /\ pc[p] = "cfg"
    /\ LET instance == loc[p].row
           handler == loc[p].handler
           written == IF handler = "lock_mode"
                      THEN [f \in DOMAIN config |->
                               IF f \in LockFields THEN instance[f] ELSE config[f]]
                      ELSE certified(instance)
           triggered == should_reconcile(config.certificate_path,
                                         config.certificate_password,
                                         instance.certificate_path,
                                         instance.certificate_password)
           reconciled == triggered /\ written.has_certificate
       IN  /\ config' = IF reconciled
                        THEN [written EXCEPT !.last_reconciliation_status = status]
                        ELSE written
           /\ loc' = [loc EXCEPT ![p] =
                       [record_type |-> "saved", handler |-> handler,
                        previous |-> <<config.certificate_path, config.certificate_password>>,
                        stored |-> <<written.certificate_path, written.certificate_password>>,
                        reconciled |-> reconciled]]
    /\ pc' = [pc EXCEPT ![p] = "idle"]
    /\ UNCHANGED <<records, queue, now, aeat, recovery, manager>>

InitSignals ==
    /\ records = {}
    /\ config = SignalConfig
    /\ queue = {}
    /\ now = 1
    /\ aeat = NoHash
    /\ recovery = NoRecoveryPoints
    /\ manager = NewManager
    /\ pc = [p \in Procs |-> "idle"]
    /\ loc = [p \in Procs |-> NoRecord]

NextSignals ==
    \/ \E p \in Procs, handler \in ConfigHandlers, path \in CertPaths,
          password \in CertPasswords : get_config(p, handler, path, password)
    \/ \E p \in Procs, status \in ReconciledStatuses : config_save(p, status)

SpecSignals == InitSignals /\ [][NextSignals]_vars

\* --- calls in progress: an engine call is entered, then runs to its return
EngineCalls == {"reconcile", "resolve_conflict", "process_queue"}

\* the call is made: process_queue is at its mode check (lines 279-283),
\* reconcile and resolve_conflict at their certificate check, before the
\* authority is queried. Neither method acquires anything on entry.
call_enter(p, operation) ==
    /\ pc[p] = "idle"
    /\ pc' = [pc EXCEPT ![p] = operation]
    /\ loc' = [loc EXCEPT ![p] = [record_type |-> "entered", operation |-> operation]]
    /\ UNCHANGED <<records, config, queue, now, aeat, recovery, manager>>

\* the entered process_queue call, a step at a time. First the mode check,
\* get_pending_records() and the configuration check: the entries fetched stay
\* with the call. Then the loop over the fetched entries: the first one is
\* submitted; on success the record and the fetched entry instance are saved
\* and record_success is called, then the AttributeError of retry_count ends
\* the call as in process_queue_at.
process_queue_step(p, response) ==
    /\ pc[p] \in {"process_queue", "submit"}
    /\ LET pending == {q \in queue : q.status \in {"pending", "retrying"}}
           ends(outcome, failed) ==
               /\ loc' = [loc EXCEPT ![p] = Processed(response, outcome, << >>, 0, failed)]
               /\ pc' = [pc EXCEPT ![p] = "idle"]
               /\ UNCHANGED <<records, queue, manager>>
       IN  IF pc[p] = "process_queue"
           THEN IF manager.mode = "offline" THEN ends("returned", 0)
                ELSE IF filter_raises({"status", "next_retry"}) THEN ends("FieldError", 0)
                ELSE IF pending = {} THEN ends("returned", 0)
                ELSE IF ~config.has_certificate
                THEN ends("returned", Cardinality(pending))
                ELSE /\ loc' = [loc EXCEPT ![p] =
                                 [record_type |-> "pending", entries |-> pending]]
                     /\ pc' = [pc EXCEPT ![p] = "submit"]
                     /\ UNCHANGED <<records, queue, manager>>
           ELSE \E queue_entry \in Heads(loc[p].entries) :
                  /\ loc' = [loc EXCEPT ![p] =
                          Processed(response, "AttributeError", <<queue_entry.record>>, 0, 0)]
                  /\ pc' = [pc EXCEPT ![p] = "idle"]
                  /\ IF response = "success"
                     THEN /\ records' =
                               {IF RecordKey(r) = queue_entry.record
                                THEN [r EXCEPT !.status = "transmitted",
                                               !.aeat_csv = Some("CSV"),
                                               !.transmission_timestamp = Some(now)]
                                ELSE r : r \in records}
                          /\ queue' = {q \in queue : q.record # queue_entry.record}
                                 \cup {[queue_entry EXCEPT !.status = "completed"]}
                          /\ manager' = succeeded(manager)
                     ELSE UNCHANGED <<records, queue, manager>>
    /\ UNCHANGED <<config, now, aeat, recovery>>

\* the entered call runs to its return
call_return(p, issuer, up, response) ==
    \/ process_queue_step(p, response)
    \/ reconcile_call_at(p, issuer, up, "reconcile")
    \/ /\ pc[p] = "resolve_conflict"
       /\ \E diagnosis \in diagnose_conflict(issuer, up) :
             LET nif == IF issuer = Null THEN config.software_nif ELSE issuer[1]
                 result == IF diagnosis.conflict_type = "none" THEN diagnosis
                           ELSE IF ~diagnosis.can_auto_resolve THEN diagnosis
                           ELSE IF diagnosis.conflict_type = "local_behind"
                           THEN resolve_local_behind(diagnosis)
                           ELSE IF diagnosis.conflict_type = "local_ahead"
                           THEN resolve_local_ahead(nif, diagnosis)
                           ELSE diagnosis
             IN  loc' = [loc EXCEPT ![p] = Call("resolve_conflict", issuer, up, result)]
       /\ pc' = [pc EXCEPT ![p] = "idle"]
       /\ UNCHANGED <<records, config, queue, now, aeat, recovery, manager>>

NextCalls ==
    \/ \E p \in Procs, operation \in EngineCalls : call_enter(p, operation)
    \/ \E p \in Procs, up \in BOOLEAN, response \in Responses :
          call_return(p, Null, up, response)
    \/ \E r \in records : queue_objects_create("w1", r, 2, Some(now), "pending")
    \/ \E h \in {NoHash, AeatHash} \cup {r.record_hash : r \in records} : authority_holds(h)

SpecCalls == InitQueue /\ [][NextCalls]_vars

\* --- ContingencyManager.verify_hash_chain
\* filter(status__in=['transmitted', 'accepted'])
Verifiable == {r \in records : r.status \in {"transmitted", "accepted"}}

\* .order_by('generation_timestamp'): equal timestamps come in any order
OrderedByTimestamp(S) ==
    {ordered \in [1..Cardinality(S) -> S] :
        \A i, j \in 1..Cardinality(S) :
            i < j => /\ ordered[i] # ordered[j]
                     /\ ordered[i].generation_timestamp[1] <= ordered[j].generation_timestamp[1]}

VerifyResult(valid, at, error) == [valid |-> valid, at |-> at, error |-> error]

\* the loop of verify_hash_chain from its i-th record on: the expected hash is
\* computed from the record's fields and the loop's previous_hash
RECURSIVE verify_from(_, _, _, _)
verify_from(ordered, i, previous_hash, first_record) ==
    IF i > Len(ordered) THEN VerifyResult(TRUE, Null, "")
    ELSE LET record == ordered[i]
             expected_hash ==
                 IF record.record_type = "alta"
                 THEN calculate_alta_hash(record.issuer_nif, record.invoice_number,
                                          record.invoice_date, record.invoice_type,
                                          record.tax_amount, record.total_amount,
                                          previous_hash, record.generation_timestamp)
                 ELSE calculate_anulacion_hash(record.issuer_nif, record.invoice_number,
                                               record.invoice_date, previous_hash,
                                               record.generation_timestamp)
         IN  IF record.record_hash # expected_hash
             THEN VerifyResult(FALSE, Some(RecordKey(record)), "Hash mismatch")
             ELSE IF ~first_record /\ record.previous_hash # previous_hash
             THEN VerifyResult(FALSE, Some(RecordKey(record)), "Chain linkage error")
             ELSE verify_from(ordered, i + 1, record.record_hash, FALSE)

\* the manager after record_failure(failure_type, ...), as far as the call gets
failure_recorded(m, failure_type) ==
    LET counted == [m EXCEPT !.failure_count = @ + 1,
                             !.failure_type = Some(failure_type)]
    IN  IF create_event_raises({"event_type", "description", "record_id"})
        THEN counted
        ELSE [counted EXCEPT !.mode = mode_after_failure(counted.mode, failure_type,
                                                         counted.failure_count)]

\* ContingencyManager.verify_hash_chain: on an inconsistency record_failure is
\* called before the return; the TypeError of its event leaves the call
verify_hash_chain(p) ==
    /\ pc[p] = "idle"
    /\ \E ordered \in OrderedByTimestamp(Verifiable) :
          LET result == verify_from(ordered, 1, NoHash, TRUE)
              raises == ~result.valid
                        /\ create_event_raises({"event_type", "description", "record_id"})
          IN  /\ ~result.valid => manager.failure_count < MaxFailures
              /\ manager' = IF result.valid THEN manager
                            ELSE failure_recorded(manager, "hash_chain")
              /\ loc' = [loc EXCEPT ![p] =
                          [record_type |-> "verify_hash_chain",
                           outcome |-> IF raises THEN "TypeError" ELSE "returned",
                           result |-> result]]
    /\ UNCHANGED <<records, config, queue, now, aeat, recovery, pc>>

NextVerify ==
    \/ \E number \in Numbers, date \in Dates :
          on_invoice_created("w2", "A", number, date, "standard", UserOf("w2"))
    \/ \E number \in Numbers, date \in Dates :
          create_record_read_hash("w2", "A", number, date, "standard", "anulacion")
    \/ create_record_read_seq("w2")
    \/ save_insert("w2")
    \/ save_lock_read("w2")
    \/ save_lock_write("w2")
    \/ \E r \in records, status \in {"transmitted", "accepted"} : save_update(r, status)
    \/ verify_hash_chain("w1")
    \/ AdvanceYear

SpecVerify == InitReconcile /\ [][NextVerify]_vars

\* --- the engine operations on a store whose records are being answered
\* the authority's answer to a transmitted record, stored as its status
RecordAnswers == {"accepted", "rejected"}

NextEngine ==
    \/ \E r \in records, status \in RecordAnswers : save_update(r, status)
    \/ \E r \in records : queue_objects_create("w1", r, 2, Some(now), "pending")
    \/ \E response \in Responses : process_queue("w1", response)
    \/ \E up \in BOOLEAN : reconcile_call("w1", Null, up)
    \/ \E up \in BOOLEAN : resolve_conflict("w1", Null, up)
    \/ \E up \in BOOLEAN : recover_from_aeat("A", up)
    \/ \E h \in {ManualHash, MalformedHash} : recover_manual("A", h)
    \/ verify_hash_chain("w1")
    \/ \E h \in {AeatHash} \cup {r.record_hash : r \in LastOf(records)} : authority_holds(h)

SpecEngine == InitQueue /\ [][NextEngine]_vars

\* --- ContingencyManager.check_health
MAX_QUEUE_AGE_HOURS == 48
MAX_QUEUE_SIZE == 1000

\* model time counts years; an instant in hours
Hours(t) == t * 365 * 24

\* the attributes a VerifactuConfig instance has besides its fields
VerifactuConfigMethods ==
    {"save", "get_config", "is_production", "is_verifactu_mode", "aeat_endpoint",
     "days_until_certificate_expiry", "can_change_mode", "lock_mode",
     "can_deactivate_module", "get_mode_lock_info", "is_protected", "delete"}

\* config.<name>() raises AttributeError when the class has no such attribute
config_call_raises(name) == name \notin VerifactuConfigMethods

\* VerifactuConfig.days_until_certificate_expiry, in years
days_until_certificate_expiry(c, t) ==
    IF c.certificate_expiry = Null THEN Null ELSE Some(c.certificate_expiry[1] - t)

\* the configuration part of check_health: the except clause turns the
\* AttributeError of config.is_certificate_expiring() into an issue
config_issues(c, t) ==
    IF c.certificate_path = "" THEN {"No certificate configured"}
    ELSE IF config_call_raises("is_certificate_expiring") THEN {"Configuration error"}
    ELSE LET days == days_until_certificate_expiry(c, t)
         IN  IF days # Null /\ days[1] <= 0 THEN {"Certificate expiring soon"} ELSE {}

\* the queue part of check_health
queue_issues(entries, t) ==
    LET waiting == {q \in entries : q.status \in {"pending", "retrying"}}
        queue_count == Cardinality(waiting)
        old_count == Cardinality({q \in waiting :
                        Hours(q.queued_at) < Hours(t) - MAX_QUEUE_AGE_HOURS})
    IN  (IF queue_count > MAX_QUEUE_SIZE THEN {"Queue size critical"}
         ELSE IF queue_count > MAX_QUEUE_SIZE \div 2 THEN {"Queue size warning"}
         ELSE {})
        \cup (IF old_count > 0 THEN {"records queued for too long"} ELSE {})

\* ContingencyManager.check_health
check_health(p) ==
    /\ pc[p] = "idle"
    /\ LET issues == config_issues(config, now) \cup queue_issues(queue, now)
       IN  loc' = [loc EXCEPT ![p] =
                    [record_type |-> "check_health", healthy |-> issues = {},
                     issues |-> issues]]
    /\ manager' = [manager EXCEPT !.last_health_check = Some(now)]
    /\ UNCHANGED <<records, config, queue, now, aeat, recovery, pc>>

\* the configuration after upload_certificate stored, or did not store, a
\* certificate and its expiry date
InitHealth ==
    /\ records = QueueStore
    /\ \E path \in {"", "p1"}, expiry \in {Null} \cup {Some(y) : y \in 1..(MaxYear + 1)} :
         config = lock_mode([DefaultConfig EXCEPT !.enabled = TRUE, !.software_nif = "A",
                                                  !.has_certificate = path # ""],
                            UserOf("w2"), 1)
                  @@ [certificate_path |-> path,
                      certificate_expiry |-> IF path = "" THEN Null ELSE expiry]
    /\ queue = {}
    /\ now = 1
    /\ aeat = NoHash
    /\ recovery = NoRecoveryPoints
    /\ manager = NewManager
    /\ pc = [p \in Procs |-> "idle"]
    /\ loc = [p \in Procs |-> NoRecord]

NextHealth ==
    \/ \E r \in records, status \in EntryStatuses :
          queue_objects_create("w2", r, 2, Null, status)
    \/ \E q \in queue : cancel_queue_entry(q)
    \/ check_health("w1")
    \/ AdvanceYear

SpecHealth == InitHealth /\ [][NextHealth]_vars

\* ================================================================ claims
Keys(S) == {RecordKey(r) : r \in S}

\* C1: every stored record with sequence_number > 1 has a stored predecessor of
\* the same issuer with the preceding sequence_number whose record_hash is the
\* record's previous_hash, after any builds through the two sale/invoice
\* handlers, several issuers included.
C1_ChainLinkedPerIssuer ==
    \A r \in records :
        r.sequence_number > 1 =>
            \E q \in records : /\ q.issuer_nif = r.issuer_nif
                               /\ q.sequence_number = r.sequence_number - 1
                               /\ q.record_hash = r.previous_hash

\* C2: concurrent builds for one issuer serialize: no two stored records of an
\* issuer share a sequence_number or a previous_hash.
C2_BuildsSerialize ==
    \A r \in records : \A s \in records :
        (r # s /\ r.issuer_nif = s.issuer_nif) =>
            /\ r.sequence_number # s.sequence_number
            /\ r.previous_hash # s.previous_hash

C4_StoredHashValid == \A r \in records : validate_hash(r)

\* C5: no two stored records share (issuer_nif, invoice_number, invoice_date,
\* record_type); a build of a duplicate fails and leaves the record store, the
\* configuration and the queue as they were.
C5_UniqueRecords ==
    \A r \in records : \A s \in records : RecordKey(r) = RecordKey(s) => r = s

C5_DuplicateStep ==
    \A p \in Procs :
        (/\ pc[p] = "create"
         /\ pc'[p] # "create"
         /\ \E s \in records : RecordKey(s) = RecordKey(loc[p]))
        => /\ loc'[p].record_type = "IntegrityError"
           /\ pc'[p] = "idle"
           /\ records' = records
           /\ config' = config
           /\ queue' = queue

C5_Unique == []C5_UniqueRecords /\ [][C5_DuplicateStep]_vars

C5_Witness ==
    \E p \in Procs : /\ loc[p].record_type = "IntegrityError"
                     /\ Cardinality(records) >= 2

\* C6: no operation removes a stored record: every record stored before a step
\* is stored after it, so a delete of one record or of all records is rejected.
C6_StoreOnlyGrows == [][Keys(records) \subseteq Keys(records')]_vars

C8_NewRecordExtendsHead ==
    \A r \in records' :
        RecordKey(r) \notin Keys(records) =>
            IF OfIssuer(r.issuer_nif) = {}
            THEN r.sequence_number = 1
            ELSE \E h \in LastOf(OfIssuer(r.issuer_nif)) :
                    /\ r.sequence_number = h.sequence_number + 1
                    /\ r.previous_hash = h.record_hash

C8_OnlyHeadExtensions == [][C8_NewRecordExtendsHead]_vars

\* C9: from an unlocked configuration, persisting the first record locks it:
\* mode_locked, fiscal_year_locked = the current year, module_activated,
\* first_record_date set, mode_locked_by = the creator of the record.
C9_LockStep ==
    \A p \in Procs :
        (pc[p] = "lock_write" /\ pc'[p] = "idle") =>
            /\ ~loc[p].record_type \in {"none", "IntegrityError"}
            /\ config'.mode_locked
            /\ config'.fiscal_year_locked = Some(now)
            /\ config'.module_activated
            /\ config'.first_record_date # Null
            /\ config'.mode_locked_by = loc[p].created_by

C9_FirstRecordLocked ==
    (Cardinality(records) = 1 /\ \A p \in Procs : pc[p] = "idle") =>
        \A r \in records :
            /\ config.mode_locked
            /\ config.module_activated
            /\ config.first_record_date # Null
            /\ config.fiscal_year_locked # Null
            /\ config.fiscal_year_locked[1] <= now
            /\ config.mode_locked_by = r.created_by

C9_FirstRecordLocks == []C9_FirstRecordLocked /\ [][C9_LockStep]_vars

C9_Witness ==
    /\ Cardinality(records) = 1
    /\ \A p \in Procs : pc[p] = "idle"
    /\ config.mode_locked
    /\ config.fiscal_year_locked = Some(now)

\* C10: can_change_mode() is true exactly when the configuration is unlocked or
\* is locked for a fiscal year other than the current one, for every
\* combination of mode_locked, fiscal_year_locked (unset included) and year.
C10_CanChangeMode ==
    can_change_mode(config, now) <=>
        \/ ~config.mode_locked
        \/ /\ config.fiscal_year_locked # Null
           /\ config.fiscal_year_locked[1] # now

C10_Witness ==
    /\ config.mode_locked
    /\ config.fiscal_year_locked # Null
    /\ config.fiscal_year_locked[1] # now
    /\ \E p \in Procs : pc[p] = "cm_write"

\* C11: a mode change requested while the configuration is locked for the
\* current year is refused and leaves the configuration as it was; requested in
\* a later fiscal year it is accepted and the mode becomes the requested one.
C11_ChangeModeStep ==
    \A p \in Procs :
        /\ (/\ pc[p] = "idle"
            /\ config.mode_locked
            /\ config.fiscal_year_locked = Some(now)
            /\ loc'[p] # loc[p])
           => /\ loc'[p] = Refused
              /\ pc'[p] = "idle"
              /\ config' = config
        /\ (/\ pc[p] = "idle"
            /\ config.mode_locked
            /\ config.fiscal_year_locked # Null
            /\ config.fiscal_year_locked[1] < now
            /\ loc'[p] # loc[p])
           => /\ pc'[p] = "cm_write"
              /\ config' = config
        /\ (/\ pc[p] = "cm_write"
            /\ pc'[p] = "idle"
            /\ loc[p].new_mode \in {"verifactu", "no_verifactu"})
           => config'.mode = loc[p].new_mode

C11_ModeChangeRefusedWhileLocked == [][C11_ChangeModeStep]_vars

C11_Witness ==
    /\ config.mode_locked
    /\ config.fiscal_year_locked = Some(now)
    /\ \E p \in Procs : loc[p] = Refused

\* C12: once the configuration is locked for fiscal year Y it stays locked for
\* Y: within year Y no step of record creation or of a configuration write
\* (settings save, certificate upload, mode change) unlocks it or alters the mode.
C12_LockedYearStep ==
    (/\ config.mode_locked
     /\ config.fiscal_year_locked = Some(now)
     /\ now' = now)
    => /\ config'.mode_locked
       /\ config'.mode = config.mode

C12_LockIrreversibleInYear == [][C12_LockedYearStep]_vars

\* C13: the first append and the configuration lock are atomic: no reachable
\* state, the one left by a failure between persisting and locking included,
\* has a stored record while the configuration is unlocked.
C13_NoRecordWhileUnlocked == records # {} => config.mode_locked

\* C14: can_deactivate_module() is true only when module_activated is false and
\* the store is empty, and after a state that holds a record it is never true.
C14_DeactivateStep ==
    /\ can_deactivate_module(config, records # {})
          => (~config.module_activated /\ records = {})
    /\ records # {} => ~can_deactivate_module(config', records' # {})

C14_NeverDeactivableAfterRecord == [][C14_DeactivateStep]_vars

\* C15: with an empty local store and an authority whose last record has hash
\* H, resolve_conflict classifies the conflict as LocalBehind and stores H as
\* the issuer's recovery pointer, and the next record built for the issuer has
\* previous_hash = H, is_first_record = false and sequence_number = 1.
C15_ResolveStep ==
    \A p \in Procs :
        (/\ loc'[p] # loc[p]
         /\ loc'[p].record_type = "reconciliation"
         /\ loc'[p].status \notin {"no_certificate", "aeat_unavailable"}
         /\ OfIssuer("A") = {}
         /\ aeat # NoHash)
        => /\ loc'[p].conflict_type = "local_behind"
           /\ recovery'["A"] = Some(aeat)

C15_BuildStep ==
    \A r \in records' \ records :
        (OfIssuer(r.issuer_nif) = {} /\ recovery[r.issuer_nif] # Null)
        => /\ r.previous_hash = recovery[r.issuer_nif][1]
           /\ ~r.is_first_record
           /\ r.sequence_number = 1

C15_LocalBehindStoresPointer == [][C15_ResolveStep /\ C15_BuildStep]_vars

\* C16: get_effective_last_hash(issuer) answers the head record's hash whenever
\* the issuer has a local record (a stored pointer is then ignored), otherwise
\* the stored recovery pointer's hash if there is one, otherwise the empty string.
C16_QueryStep ==
    \A p \in Procs :
        (loc'[p] # loc[p] /\ loc'[p].record_type = "hash")
        => LET nif == loc'[p].nif
               value == loc'[p].value
           IN  IF \E r \in records : r.issuer_nif = nif
               THEN \E r \in records :
                       /\ r.issuer_nif = nif
                       /\ \A q \in records :
                             q.issuer_nif = nif => q.sequence_number <= r.sequence_number
                       /\ value = r.record_hash
               ELSE IF recovery[nif] # Null
               THEN value = recovery[nif][1]
               ELSE value = NoHash

C17_QueryStep ==
    \A p \in Procs :
        (/\ loc'[p] # loc[p]
         /\ loc'[p].record_type = "hash"
         /\ recovery[loc'[p].nif] # Null)
        => loc'[p].value = recovery[loc'[p].nif][1]

C17_EffectiveHashPrefersPointer == [][C17_QueryStep]_vars

\* C18: from Normal with no failure since the last success, each consecutive
\* Network or AuthorityUnavailable failure leaves the manager Degraded while
\* the consecutive-failure count is below 3 and Offline once it has reached 3.
C18_TransportFailureStep ==
    (/\ manager'.failure_count = manager.failure_count + 1
     /\ manager'.failure_type \in {Some("network"), Some("aeat_unavailable")}
     /\ manager.mode \in {"normal", "degraded"})
    => manager'.mode = IF manager'.failure_count < 3 THEN "degraded" ELSE "offline"

C18_DegradedThenOffline == [][C18_TransportFailureStep]_vars

\* C19: from any mode and any failure count, record_failure with type
\* Certificate leaves the mode Offline and with type HashChain leaves it Recovery.
C19_CriticalFailureStep ==
    /\ (/\ manager'.failure_count = manager.failure_count + 1
        /\ manager'.failure_type = Some("certificate"))
       => manager'.mode = "offline"
    /\ (/\ manager'.failure_count = manager.failure_count + 1
        /\ manager'.failure_type = Some("hash_chain"))
       => manager'.mode = "recovery"

C19_CertificateOfflineHashChainRecovery == [][C19_CriticalFailureStep]_vars

\* C20: record_success leaves the mode Normal and the consecutive-failure count
\* 0 from any mode, so the next Network failure after a success leaves the
\* manager Degraded and not Offline.
C20_SuccessStep ==
    /\ (/\ manager' # manager
        /\ manager'.failure_count = 0)
       => manager'.mode = "normal"
    /\ (/\ manager.failure_count = 0
        /\ manager.last_successful_submission # Null
        /\ manager'.failure_count = 1
        /\ manager'.failure_type = Some("network"))
       => manager'.mode = "degraded"

C20_SuccessResets == [][C20_SuccessStep]_vars

\* C21: after a HashChain failure the manager blocks record creation until the
\* problem is resolved: get_status().can_create_records stays false whatever
\* failures of other types are recorded afterwards (in mode Recovery it is false).
C21_LaterFailureStep ==
    /\ (/\ ~can_create_records(manager)
        /\ manager'.failure_count = manager.failure_count + 1)
       => ~can_create_records(manager')
    /\ manager'.mode = "recovery" => ~can_create_records(manager')

C21_BlockedUntilResolved == [][C21_LaterFailureStep]_vars

\* C22: when conflict diagnosis yields HashMismatch (status
\* ManualInterventionRequired) the contingency manager is put in Recovery, and
\* while that diagnosis stands no record is added to the store.
C22_HashMismatch(result) ==
    /\ result.record_type = "reconciliation"
    /\ result.conflict_type = "hash_mismatch"
    /\ result.status = "manual_intervention_required"

C22_MismatchStep ==
    /\ (/\ loc'["w1"] # loc["w1"]
        /\ C22_HashMismatch(loc'["w1"]))
       => manager'.mode = "recovery"
    /\ C22_HashMismatch(loc["w1"]) => records' \subseteq records

C22_MismatchBlocksBuilds == [][C22_MismatchStep]_vars

\* the entries a processing round is due to submit: pending or retrying, with a
\* next attempt time at or before now
C23_Due == {q \in queue : q.status \in {"pending", "retrying"}} \cap get_ready_for_retry

\* a process_queue call by w1 that met the authority's answer `response`
C23_Round(response) ==
    /\ loc'["w1"] # loc["w1"]
    /\ loc'["w1"].record_type = "process_queue"
    /\ loc'["w1"].response = response
    /\ config.has_certificate
    /\ manager.mode # "offline"

\* C23: on the k-th consecutive transport error of a queue entry, queue
\* processing sets the entry's attempt count to k and its next attempt time to
\* now + d(k), d = 60, 300, 900, 3600, 7200 seconds for k = 1..5 and 7200 beyond,
\* and the entry stays Retrying.
C23_TransportErrorStep ==
    \A q \in Heads(C23_Due) :
        C23_Round("error")
        => LET k == q.attempts + 1
               d == RETRY_INTERVALS[IF k < 5 THEN k ELSE 5]
           IN  [q EXCEPT !.attempts = k, !.next_attempt_at = Some(now + d),
                         !.status = "retrying"] \in queue'

C23_BackoffSchedule == [][C23_TransportErrorStep]_vars

\* C24: when the authority logically rejects a queued record, the record's
\* status becomes Rejected and its queue entry becomes Failed with the error
\* recorded (so that no later round selects it for an automatic retry).
C24_RejectionStep ==
    \A q \in Heads(C23_Due) :
        C23_Round("rejected")
        => /\ \E r \in records' : RecordKey(r) = q.record /\ r.status = "rejected"
           /\ \E e \in queue' : /\ e.record = q.record
                                /\ e.status = "failed"
                                /\ e.last_error # ""

C24_RejectedNotRetried == [][C24_RejectionStep]_vars

\* C25: when submission of a queued record succeeds, the record becomes
\* Transmitted/Accepted with the authority's CSV and timestamp attached, its
\* queue entry is marked complete (no longer pending or retrying, so that no
\* later round selects it) and the manager records a success.
C25_SuccessStep ==
    \A q \in Heads(C23_Due) :
        C23_Round("success")
        => /\ \E r \in records' : /\ RecordKey(r) = q.record
                                  /\ r.status \in {"transmitted", "accepted"}
                                  /\ r.aeat_csv # Null
                                  /\ r.transmission_timestamp # Null
           /\ \E e \in queue' : e.record = q.record /\ e.status = "completed"
           /\ manager'.last_successful_submission = Some(now)
           /\ manager'.failure_count = 0

C25_SuccessCompletesEntry == [][C25_SuccessStep]_vars

\* C26: automatic retrying of a queue entry is bounded: with a certificate
\* configured, every entry that is due reaches complete or Failed (it stops
\* being pending or retrying) after finitely many processing rounds.
C26_RetryingIsBounded ==
    \A key \in Keys(QueueStore) :
        (config.has_certificate /\ \E q \in C23_Due : q.record = key)
        ~> ~(\E q \in queue : q.record = key /\ q.status \in {"pending", "retrying"})

\* C27: a processing round submits the entries that are pending or retrying
\* and due, and only those, in ascending priority and, within one priority, in
\* order of insertion: the first one submitted is a first one in that order.
C27_SelectionStep ==
    ((\E response \in Responses : C23_Round(response)) /\ C23_Due # {})
    => LET submitted == loc'["w1"].submitted
       IN  /\ submitted # << >>
           /\ \A i \in 1..Len(submitted) : submitted[i] \in {q.record : q \in C23_Due}
           /\ submitted[1] \in {q.record : q \in Heads(C23_Due)}

C27_SubmitsDueInOrder == [][C27_SelectionStep]_vars

\* C28: at most one contingency queue entry exists per record in every
\* reachable state; queueing a record that already has an entry fails without
\* adding a second entry.
C28_OnePerRecord ==
    \A q \in queue : \A e \in queue : q.record = e.record => q = e

C28_QueueingStep ==
    /\ (/\ loc'["w1"] # loc["w1"]
        /\ loc'["w1"].record_type = "queued")
       => /\ ~(\E q \in queue : q.record = loc'["w1"].record)
          /\ Cardinality(queue') = Cardinality(queue) + 1
    /\ (/\ loc'["w1"] # loc["w1"]
        /\ loc'["w1"].record_type \in {"IntegrityError", "TypeError"})
       => queue' = queue

C28_OneEntryPerRecord == []C28_OnePerRecord /\ [][C28_QueueingStep]_vars

C28_Witness ==
    /\ loc["w1"].record_type = "IntegrityError"
    /\ Cardinality(queue) = Cardinality(records)
    /\ Cardinality(queue) >= 2

\* the issuer's head hash in the local store, empty when it has no record
C29_LocalHeads(nif) ==
    IF OfIssuer(nif) = {} THEN {NoHash}
    ELSE {r.record_hash : r \in {x \in OfIssuer(nif) :
                                   \A y \in OfIssuer(nif) : y.sequence_number <= x.sequence_number}}

C29_ReconcileStep ==
    /\ loc'["w1"] # loc["w1"]
    /\ loc'["w1"].record_type = "reconcile"

\* C29 as stated: reconcile() returns NoCertificate without querying the
\* authority when no certificate is configured, AuthorityUnavailable when the
\* authority query fails or raises, Success when the local and authority head
\* hashes are equal (including when both sides are empty), and MismatchDetected
\* otherwise.
C29_FourOutcomesStep ==
    C29_ReconcileStep
    => LET call == loc'["w1"]
           nif == IF call.issuer = Null THEN config.software_nif ELSE call.issuer[1]
       IN  IF ~config.has_certificate
           THEN call.result.status = "no_certificate" /\ ~call.queried
           ELSE IF ~call.up
           THEN call.result.status = "aeat_unavailable"
           ELSE IF aeat \in C29_LocalHeads(nif)
           THEN call.result.status = "success"
           ELSE call.result.status = "mismatch_detected"

C29_FourOutcomes == [][C29_FourOutcomesStep]_vars

\* C29 amended: with a certificate configured, reconcile() returns Failed
\* without querying the authority when no issuer NIF is given or configured;
\* the other four outcomes are as stated, for a call that has an issuer NIF.
C29_FiveOutcomesStep ==
    C29_ReconcileStep
    => LET call == loc'["w1"]
           nif == IF call.issuer = Null THEN config.software_nif ELSE call.issuer[1]
       IN  IF ~config.has_certificate
           THEN call.result.status = "no_certificate" /\ ~call.queried
           ELSE IF nif = ""
           THEN call.result.status = "failed" /\ ~call.queried
           ELSE IF ~call.up
           THEN call.result.status = "aeat_unavailable"
           ELSE IF aeat \in C29_LocalHeads(nif)
           THEN call.result.status = "success"
           ELSE call.result.status = "mismatch_detected"

C29_FiveOutcomes == [][C29_FiveOutcomesStep]_vars

\* a reconcile() call with a certificate and no issuer NIF has returned Failed,
\* with records in the store
C29_Witness ==
    /\ loc["w1"].record_type = "reconcile"
    /\ loc["w1"].result.status = "failed"
    /\ loc["w1"].issuer = Null
    /\ config.has_certificate
    /\ records # {}

\* C30: when heads differ, diagnose_conflict classifies the conflict as
\* LocalBehind if the local store is empty and the authority is not, or if the
\* authority's head hash is the hash of some local record; as LocalAhead if the
\* authority is empty and the local store is not; as HashMismatch if both are
\* non-empty and the authority's head hash matches no local record; HashMismatch,
\* and only HashMismatch, is reported as not auto-resolvable with status
\* ManualInterventionRequired.
C30_DiagnoseStep ==
    LET call == loc'["w1"]
        nif == IF call.issuer = Null THEN config.software_nif ELSE call.issuer[1]
        local == OfIssuer(nif)
        expected == IF \/ local = {} /\ aeat # NoHash
                       \/ \E r \in local : r.record_hash = aeat
                    THEN "local_behind"
                    ELSE IF aeat = NoHash /\ local # {} THEN "local_ahead"
                    ELSE "hash_mismatch"
    IN  (/\ loc'["w1"] # loc["w1"]
         /\ call.record_type = "diagnose_conflict"
         /\ call.queried
         /\ call.up
         /\ aeat \notin C29_LocalHeads(nif))
        => /\ call.result.conflict_type = expected
           /\ call.result.conflict_type = "hash_mismatch"
              <=> (/\ ~call.result.can_auto_resolve
                   /\ call.result.status = "manual_intervention_required")

C30_ConflictClassification == [][C30_DiagnoseStep]_vars

\* the failures recorded since the last success are those that take the manager
\* Offline: a third consecutive transport failure, or a Certificate failure
C31_DrivenOffline ==
    \/ manager.mode = "offline"
    \/ manager.failure_type \in {Some("network"), Some("aeat_unavailable")}
          /\ manager.failure_count >= 3
    \/ manager.failure_type = Some("certificate")

C32_SaveStep ==
    \A p \in Procs :
        (pc[p] = "cfg" /\ pc'[p] = "idle")
        => LET saved == loc'[p]
           IN  /\ saved.reconciled
                  <=> (/\ saved.stored[1] # ""
                       /\ saved.stored[2] # ""
                       /\ saved.stored # saved.previous)
               /\ saved.handler = "lock_mode" => ~saved.reconciled

C32_ReconcileOnCertificateChange == [][C32_SaveStep]_vars

\* C33: reconciliation and the transmission loop are mutually exclusive: in no
\* reachable state is a reconcile or resolve_conflict call in progress while a
\* process_queue call is in progress.
C33_MutuallyExclusive ==
    \A p, q \in Procs :
        ~(/\ pc[p] \in {"reconcile", "resolve_conflict"}
          /\ pc[q] \in {"process_queue", "submit"})

\* the store is a chain built by successive appends: every record's hash
\* recomputes from its stored fields, the first record of an issuer has no
\* previous hash and every other one carries the hash of its predecessor
C35_BuiltByAppends ==
    \A r \in records :
        /\ validate_hash(r)
        /\ IF r.sequence_number = 1 THEN r.previous_hash = NoHash
           ELSE \E s \in OfIssuer(r.issuer_nif) :
                   /\ s.sequence_number = r.sequence_number - 1
                   /\ s.record_hash = r.previous_hash
                   /\ s.generation_timestamp[1] < r.generation_timestamp[1]

C35_VerifyStep ==
    \A p \in Procs :
        (loc'[p] # loc[p] /\ loc'[p].record_type = "verify_hash_chain")
        => LET result == loc'[p].result
           IN  /\ C35_BuiltByAppends => result.valid
               /\ ~result.valid => manager'.mode = "recovery"

\* C35: verify_hash_chain reports the chain valid for every store built by
\* successive appends of which any subset of the records has been transmitted
\* or accepted, and otherwise reports the first inconsistent record and puts
\* the manager in Recovery.
C35_VerifiesAppendedChains == [][C35_VerifyStep]_vars

\* a step of one of the engine operations
C34_EngineStep ==
    \/ \E response \in Responses : process_queue("w1", response)
    \/ \E up \in BOOLEAN : reconcile_call("w1", Null, up)
    \/ \E up \in BOOLEAN : resolve_conflict("w1", Null, up)
    \/ \E up \in BOOLEAN : recover_from_aeat("A", up)
    \/ \E h \in {ManualHash, MalformedHash} : recover_manual("A", h)
    \/ verify_hash_chain("w1")

\* the fields of a record that are not transmission-side
C34_Chained(r) ==
    <<r.record_type, r.sequence_number, r.issuer_nif, r.invoice_number, r.invoice_date,
      r.invoice_type, r.tax_amount, r.total_amount, r.previous_hash, r.record_hash,
      r.generation_timestamp>>

C34_FrameStep ==
    C34_EngineStep
    => /\ \A r \in records : \E s \in records' : C34_Chained(s) = C34_Chained(r)
       /\ Cardinality(records') = Cardinality(records)

C36_HealthStep ==
    \A p \in Procs :
        (loc'[p] # loc[p] /\ loc'[p].record_type = "check_health")
        => LET waiting == {q \in queue : q.status \in {"pending", "retrying"}}
               expiry == days_until_certificate_expiry(config, now)
           IN  loc'[p].healthy
               <=> (/\ config.certificate_path # ""
                    /\ expiry = Null \/ expiry[1] > 0
                    /\ Cardinality(waiting) < MAX_QUEUE_SIZE
                    /\ \A q \in waiting :
                          Hours(now) - Hours(q.queued_at) <= MAX_QUEUE_AGE_HOURS)

\* C36: check_health() reports healthy exactly when the configuration is valid,
\* the certificate is not about to expire, fewer than MAX_QUEUE_SIZE entries
\* are pending or retrying and none of them is older than MAX_QUEUE_AGE.
C36_HealthyExactlyWhen == [][C36_HealthStep]_vars

\* C37: the mode lock is renewed in each fiscal year: when the configuration
\* was locked by a record of an earlier year and a record created in the
\* current year has been persisted (no save is still under way),
\* can_change_mode() is false in the current year.
C37_LockRenewedEachYear ==
    (/\ \E r \in records : r.generation_timestamp[1] < now
     /\ \E r \in records : r.generation_timestamp = Some(now)
     /\ \A p \in Procs : pc[p] = "idle")
    => ~can_change_mode(config, now)

\* C38: every queue entry that is pending or retrying eventually has a next
\* attempt time at or before now and is then selected by process_queue (or has
\* left the queue of waiting entries by other means), with a certificate
\* configured; in particular an entry that was stored without a next attempt
\* time, as the manager computes none in Normal mode.
C38_WaitingIsSelected ==
    \A key \in Keys(QueueStore) :
        (config.has_certificate
         /\ \E q \in queue : q.record = key /\ q.status \in {"pending", "retrying"})
        ~> \/ ~(\E q \in queue : q.record = key /\ q.status \in {"pending", "retrying"})
           \/ /\ \E q \in C23_Due : q.record = key
              /\ loc["w1"].record_type = "process_queue"
              /\ \E i \in DOMAIN loc["w1"].submitted : loc["w1"].submitted[i] = key

\* a step in which worker p submits the entry of record `key` to the authority
C39_Submits(p, key) ==
    /\ pc[p] = "submit"
    /\ loc'[p].record_type = "process_queue"
    /\ \E i \in DOMAIN loc'[p].submitted : loc'[p].submitted[i] = key

\* an entry one invocation holds as pending has not, since that invocation
\* fetched it, been submitted and completed by the other invocation
C39_SubmitStep ==
    \A p \in Procs, key \in Keys(QueueStore) :
        C39_Submits(p, key)
        => \A q \in queue : q.record = key => q.status # "completed"

C40_TransportFailureInNormalStep ==
    (/\ manager'.failure_count = manager.failure_count + 1
     /\ manager'.failure_type \in {Some("network"), Some("aeat_unavailable")}
     /\ manager.mode = "normal")
    => manager'.mode # "offline"

C40_NoNormalToOffline == [][C40_TransportFailureInNormalStep]_vars

\* a Network failure has been recorded as the third or later failure in a row
\* with the manager in Normal
C40_Witness ==
    /\ manager.failure_type = Some("network")
    /\ manager.failure_count >= 3
    /\ manager.mode = "normal"

====
